---- MODULE Spec2Model ----
(***************************************************************************)
(* Project-context extraction of neoAimeow/private-tools.                  *)
(*                                                                         *)
(* Four programs share the extraction logic and are modelled side by side, *)
(* selected by the variable `variant`:                                     *)
(*   "lib"        analyzeGithubProject          (src/src/lib/github.ts)     *)
(*   "remoteOnly" POST without local support    (src/unnamed/part_000:253)  *)
(*   "withLocal"  POST with local support       (src/unnamed/part_000:78)   *)
(*   "legacy"     POST, local scan only (src/src/pages/api/analyze-project.ts) *)
(*                                                                         *)
(* JavaScript strings that the code inspects (paths, the project           *)
(* reference) are sequences of one-character strings.  File contents are   *)
(* never inspected, only sliced and measured, so a text is the pair        *)
(* (source it was read from, number of leading characters kept).           *)
(* One action is one continuation of the event loop: the synchronous code  *)
(* that runs when an awaited request settles, up to the next await.        *)
(***************************************************************************)
EXTENDS Integers, Sequences, FiniteSets, TLC

(***************************************************************************)
(* Bounds of the model.                                                    *)
(***************************************************************************)
\* Listings of at most FaultTree candidate files are explored with every
\* combination of per-request faults.
FaultTree == 2
\* One larger, fault-free listing: enough candidates for the stored total to
\* pass TOTAL_CODE_LIMIT.
BigTree == 11

\* streamGeminiApi on its own: responses of up to MaxLines lines.
MaxLines == 2

\* generate-aso requests for one app document.
MaxRequests == 2

\* fetchGithubTree on its own: listing responses of up to MaxEntries entries.
MaxEntries == 3

\* A listing with more source files than are selected for content.
WideTree == 17

\* Ranking on its own: listings of up to MaxMixed paths of RankPool in every
\* order, and listings of up to MaxCandidates source files.
MaxMixed == 3
MaxCandidates == 52

(***************************************************************************)
(* Program constants.                                                      *)
(***************************************************************************)
MAX_CODE_FILES == 15
MAX_FILE_SIZE == 50000
TOTAL_CODE_LIMIT == 500000
README_LIMIT == 200000
STRUCTURE_LIMIT == 50
LEGACY_README_LIMIT == 8000

ALLOWED_EXTENSIONS ==
    { <<".","t","s">>,
      <<".","t","s","x">>,
      <<".","j","s">>,
      <<".","j","s","x">>,
      <<".","p","y">>,
      <<".","d","a","r","t">>,
      <<".","g","o">>,
      <<".","r","s">>,
      <<".","j","a","v","a">>,
      <<".","k","t">>,
      <<".","s","w","i","f","t">>,
      <<".","p","h","p">>,
      <<".","r","b">>,
      <<".","c">>,
      <<".","c","p","p">>,
      <<".","h">> }

\* github.ts: 19 patterns.
IGNORE_PATTERNS ==
    << <<"n","o","d","e","_","m","o","d","u","l","e","s">>,
       <<"d","i","s","t">>,
       <<"b","u","i","l","d">>,
       <<"o","u","t">>,
       <<".","g","i","t">>,
       <<".","g","i","t","h","u","b">>,
       <<"t","e","s","t">>,
       <<"t","e","s","t","s">>,
       <<"_","_","t","e","s","t","s","_","_">>,
       <<"s","p","e","c">>,
       <<"a","s","s","e","t","s">>,
       <<"p","u","b","l","i","c">>,
       <<"c","o","m","p","o","n","e","n","t","s","/","u","i">>,
       <<".","d",".","t","s">>,
       <<"l","o","c","a","l","e","s">>,
       <<"i","1","8","n">>,
       <<"t","r","a","n","s","l","a","t","i","o","n","s">>,
       <<"l","a","n","g">>,
       <<"l","1","0","n">> >>

\* The two POST handlers: the first 14 patterns only.
IGNORE_PATTERNS_POST == SubSeq(IGNORE_PATTERNS, 1, 14)

README_MD == <<"R","E","A","D","M","E",".","m","d">>
readme_md == <<"r","e","a","d","m","e",".","m","d">>
package_json == <<"p","a","c","k","a","g","e",".","j","s","o","n">>
S_http == <<"h","t","t","p">>
S_github_com == <<"g","i","t","h","u","b",".","c","o","m">>
S_httpScheme == <<"h","t","t","p",":","/","/">>
S_httpsScheme == <<"h","t","t","p","s",":","/","/">>
S_src_slash == <<"s","r","c","/">>
S_src == <<"s","r","c">>
S_pages == <<"p","a","g","e","s">>
S_main == <<"m","a","i","n">>

(***************************************************************************)
(* JavaScript string operations.                                           *)
(***************************************************************************)
Min(a, b) == IF a <= b THEN a ELSE b

Range(s) == { s[i] : i \in DOMAIN s }

UpperLetters == <<"A","B","C","D","E","F","G","H","I","J","K","L","M",
                  "N","O","P","Q","R","S","T","U","V","W","X","Y","Z">>
LowerLetters == <<"a","b","c","d","e","f","g","h","i","j","k","l","m",
                  "n","o","p","q","r","s","t","u","v","w","x","y","z">>
Digits == {"0","1","2","3","4","5","6","7","8","9"}

\* String.prototype.toLowerCase, one character.
LowerChar(c) ==
    IF \E i \in 1..26 : UpperLetters[i] = c
    THEN LowerLetters[CHOOSE i \in 1..26 : UpperLetters[i] = c]
    ELSE c

toLowerCase(s) == [i \in 1..Len(s) |-> LowerChar(s[i])]

\* String.prototype.startsWith
startsWith(s, p) == Len(p) <= Len(s) /\ SubSeq(s, 1, Len(p)) = p

\* String.prototype.includes
includes(s, p) ==
    \E i \in 0..(Len(s) - Len(p)) : SubSeq(s, i + 1, i + Len(p)) = p

\* String.prototype.split on a one-character separator: "" gives [""].
RECURSIVE split(_, _)
split(s, sep) ==
    IF \A i \in 1..Len(s) : s[i] # sep
    THEN <<s>>
    ELSE LET k == CHOOSE i \in 1..Len(s) :
                      s[i] = sep /\ \A j \in 1..(i - 1) : s[j] # sep
         IN  <<SubSeq(s, 1, k - 1)>> \o split(SubSeq(s, k + 1, Len(s)), sep)

\* Array.prototype.filter(Boolean) on an array of strings: drops "".
RECURSIVE filterBoolean(_)
filterBoolean(parts) ==
    IF parts = <<>> THEN <<>>
    ELSE (IF Head(parts) = <<>> THEN <<>> ELSE <<Head(parts)>>)
         \o filterBoolean(Tail(parts))

IsAlnum(c) ==
    \/ c \in Digits
    \/ \E i \in 1..26 : LowerLetters[i] = c \/ UpperLetters[i] = c

\* filePath.match(/\.[0-9a-z]+$/i): the class excludes ".", so a match starts
\* at the last "." and needs one or more alphanumerics up to the end.
ExtRegex(filePath) ==
    LET dots == { i \in 1..Len(filePath) : filePath[i] = "." }
    IN  IF dots = {} THEN <<>>
        ELSE LET d == CHOOSE i \in dots : \A j \in dots : j <= i
             IN  IF d < Len(filePath)
                    /\ \A j \in (d + 1)..Len(filePath) : IsAlnum(filePath[j])
                 THEN toLowerCase(SubSeq(filePath, d, Len(filePath)))
                 ELSE <<>>

\* path.extname (node, posix): from the last "." of the last path segment;
\* "" when that segment has no "." or its only "." is its first character.
extname(filePath) ==
    LET slashes == { i \in 1..Len(filePath) : filePath[i] = "/" }
        start == IF slashes = {} THEN 1
                 ELSE 1 + CHOOSE i \in slashes : \A j \in slashes : j <= i
        dots == { i \in start..Len(filePath) : filePath[i] = "." }
    IN  IF dots = {} THEN <<>>
        ELSE LET d == CHOOSE i \in dots : \A j \in dots : j <= i
             IN  IF d = start THEN <<>>
                 ELSE SubSeq(filePath, d, Len(filePath))

(***************************************************************************)
(* File Interest Filter.                                                   *)
(***************************************************************************)
\* A variant of the filter that matches the ignore patterns against the path
\* as it is written.
isInterestingFileCaseSensitive(filePath, patterns) ==
    LET ext == ExtRegex(filePath)
    IN  IF ext \notin ALLOWED_EXTENSIONS THEN FALSE
        ELSE ~ \E k \in 1..Len(patterns) : includes(filePath, patterns[k])

\* A variant of the filter that accepts a path without an extension.
isInterestingFileNoExtension(filePath, patterns) ==
    LET ext == ExtRegex(filePath)
        lowerPath == toLowerCase(filePath)
    IN  IF ext # <<>> /\ ext \notin ALLOWED_EXTENSIONS THEN FALSE
        ELSE ~ \E k \in 1..Len(patterns) : includes(lowerPath, patterns[k])

\* github.ts and the POST handler without local support differ only in the
\* ignore list.
isInterestingFileWith(filePath, patterns) ==
    LET ext == ExtRegex(filePath)
        lowerPath == toLowerCase(filePath)
    IN  IF ext \notin ALLOWED_EXTENSIONS THEN FALSE
        ELSE ~ \E k \in 1..Len(patterns) : includes(lowerPath, patterns[k])

isInterestingFile(filePath) == isInterestingFileWith(filePath, IGNORE_PATTERNS)

isInterestingFileRemotePost(filePath) ==
    isInterestingFileWith(filePath, IGNORE_PATTERNS_POST)

\* The POST handler with local support: path.extname instead of the regex.
isInterestingFileLocal(filePath) ==
    LET ext == toLowerCase(extname(filePath))
        lowerPath == toLowerCase(filePath)
    IN  IF ext \notin ALLOWED_EXTENSIONS THEN FALSE
        ELSE ~ \E k \in 1..Len(IGNORE_PATTERNS_POST) :
                   includes(lowerPath, IGNORE_PATTERNS_POST[k])

RECURSIVE SelectSeqBy(_, _)
\* Array.prototype.filter with the filter of variant v.
SelectSeqBy(s, v) ==
    IF s = <<>> THEN <<>>
    ELSE LET keep == CASE v = "lib" -> isInterestingFile(Head(s))
                       [] v = "remoteOnly" -> isInterestingFileRemotePost(Head(s))
                       [] OTHER -> isInterestingFileLocal(Head(s))
         IN  (IF keep THEN <<Head(s)>> ELSE <<>>) \o SelectSeqBy(Tail(s), v)

(***************************************************************************)
(* Ranking/Selection Policy.                                               *)
(***************************************************************************)
\* A variant of the comparator's score without the bonus for "main".
ScoreWithoutMain(a) ==
    (IF includes(a, S_src_slash) THEN -10 ELSE 0)
    + (IF includes(a, S_pages) THEN -5 ELSE 0)
    + Len(a)

\* A variant of the comparator's score with a bonus of 5 for "src/".
ScoreSmallSrcBonus(a) ==
    (IF includes(a, S_src_slash) THEN -5 ELSE 0)
    + (IF includes(a, S_pages) THEN -5 ELSE 0)
    + (IF includes(a, S_main) THEN -5 ELSE 0)
    + Len(a)

\* The comparator's score of the remote path.
Score(a) ==
    (IF includes(a, S_src_slash) THEN -10 ELSE 0)
    + (IF includes(a, S_pages) THEN -5 ELSE 0)
    + (IF includes(a, S_main) THEN -5 ELSE 0)
    + Len(a)

\* The comparator's score of the local path.
ScoreLocal(a) == (IF includes(a, S_src) THEN -10 ELSE 0) + Len(a)

ScoreOf(a, local) == IF local THEN ScoreLocal(a) ELSE Score(a)

\* Array.prototype.sort is stable: an element goes after every element whose
\* score is not larger.
RECURSIVE InsertByScore(_, _, _)
InsertByScore(sorted, a, local) ==
    IF sorted = <<>> THEN <<a>>
    ELSE IF ScoreOf(Head(sorted), local) <= ScoreOf(a, local)
         THEN <<Head(sorted)>> \o InsertByScore(Tail(sorted), a, local)
         ELSE <<a>> \o sorted

RECURSIVE SortByScore(_, _)
SortByScore(s, local) ==
    IF s = <<>> THEN <<>>
    ELSE InsertByScore(SortByScore(SubSeq(s, 1, Len(s) - 1), local),
                       s[Len(s)], local)

\* A variant of slice that keeps the whole list.
sliceKeepsAll(s, n) == s

\* A variant of slice that takes the element at index n too.
sliceInclusive(s, n) == SubSeq(s, 1, Min(Len(s), n + 1))

\* Array.prototype.slice(0, n)
slice(s, n) == SubSeq(s, 1, Min(Len(s), n))

(***************************************************************************)
(* Source classification.                                                  *)
(***************************************************************************)
\* A projectPath that the request does not carry (JavaScript undefined).
Undefined == <<"undefined">>

\* A variant of the check that tests for undefined only.
FalsyUndefinedOnly(projectPath) == projectPath = Undefined

\* !projectPath: undefined and "" are falsy.
Falsy(projectPath) == projectPath \in {Undefined, <<>>}

P_SLUG == <<"o","/","r">>
P_URL == <<"h","t","t","p","s",":","/","/","g","i","t","h","u","b",".","c","o","m","/","o","/","r">>
P_ABS == <<"/","p">>
P_DOT == <<".","/","d">>
P_ONE == <<"d">>
P_THREE == <<"a","/","b","/","c">>
P_OTHERHOST == <<"h","t","t","p",":","/","/","x",".","i","o","/","g","i","t","h","u","b",".","c","o","m","/","r">>
P_URL_ONE == <<"h","t","t","p","s",":","/","/","g","i","t","h","u","b",".","c","o","m","/","o">>
P_NOURL == <<"h","t","t","p","g","i","t","h","u","b",".","c","o","m">>

ProjectPaths ==
    { P_SLUG, P_URL, P_ABS, P_DOT, P_ONE, P_THREE, P_OTHERHOST, P_URL_ONE,
      P_NOURL }

\* new URL(s), for the references of ProjectPaths: with an http:// or
\* https:// prefix and a host the parse succeeds; a string without ":" is
\* not a URL and the constructor throws.
UrlAfterScheme(s) ==
    IF startsWith(s, S_httpsScheme) THEN SubSeq(s, 9, Len(s))
    ELSE IF startsWith(s, S_httpScheme) THEN SubSeq(s, 8, Len(s))
    ELSE <<>>

UrlThrows(s) ==
    LET rest == UrlAfterScheme(s)
    IN  rest = <<>> \/ rest[1] \in {"/", "?", "#"}

\* new URL(s).pathname: what follows the host, up to "?" or "#".
UrlPathname(s) ==
    LET rest == UrlAfterScheme(s)
        stops == { i \in 1..Len(rest) : rest[i] \in {"/", "?", "#"} }
    IN  IF stops = {} THEN <<"/">>
        ELSE LET b == CHOOSE i \in stops : \A j \in stops : i <= j
                 tail == SubSeq(rest, b, Len(rest))
                 cuts == { i \in 1..Len(tail) : tail[i] \in {"?", "#"} }
                 e == IF cuts = {} THEN Len(tail)
                      ELSE (CHOOSE i \in cuts : \A j \in cuts : i <= j) - 1
             IN  IF rest[b] = "/" THEN SubSeq(tail, 1, e) ELSE <<"/">>

\* A variant of the classification without the test for a leading "/".
DetectGithubNoSlashCheck(projectPath) ==
    LET local == [isGithub |-> FALSE, repoSlug |-> projectPath]
    IN  IF projectPath = Undefined THEN local
        ELSE IF startsWith(projectPath, S_http) /\ includes(projectPath, S_github_com)
        THEN IF UrlThrows(projectPath) THEN local
             ELSE LET parts == filterBoolean(split(UrlPathname(projectPath), "/"))
                  IN  IF Len(parts) >= 2
                      THEN [isGithub |-> TRUE,
                            repoSlug |-> parts[1] \o <<"/">> \o parts[2]]
                      ELSE local
        ELSE IF Len(split(projectPath, "/")) = 2
        THEN [isGithub |-> TRUE, repoSlug |-> projectPath]
        ELSE local

\* A variant of the classification that takes two or more segments.
DetectGithubTwoOrMore(projectPath) ==
    LET local == [isGithub |-> FALSE, repoSlug |-> projectPath]
    IN  IF projectPath = Undefined THEN local
        ELSE IF startsWith(projectPath, S_http) /\ includes(projectPath, S_github_com)
        THEN IF UrlThrows(projectPath) THEN local
             ELSE LET parts == filterBoolean(split(UrlPathname(projectPath), "/"))
                  IN  IF Len(parts) >= 2
                      THEN [isGithub |-> TRUE,
                            repoSlug |-> parts[1] \o <<"/">> \o parts[2]]
                      ELSE local
        ELSE IF ~startsWith(projectPath, <<"/">>)
                /\ Len(split(projectPath, "/")) >= 2
        THEN [isGithub |-> TRUE, repoSlug |-> projectPath]
        ELSE local

\* The "Detect GitHub" block: [isGithub, repoSlug].  An undefined reference
\* makes startsWith throw inside the try, which the empty catch swallows.
DetectGithub(projectPath) ==
    LET local == [isGithub |-> FALSE, repoSlug |-> projectPath]
    IN  IF projectPath = Undefined THEN local
        ELSE IF startsWith(projectPath, S_http) /\ includes(projectPath, S_github_com)
        THEN IF UrlThrows(projectPath) THEN local
             ELSE LET parts == filterBoolean(split(UrlPathname(projectPath), "/"))
                  IN  IF Len(parts) >= 2
                      THEN [isGithub |-> TRUE,
                            repoSlug |-> parts[1] \o <<"/">> \o parts[2]]
                      ELSE local
        ELSE IF ~startsWith(projectPath, <<"/">>)
                /\ Len(split(projectPath, "/")) = 2
        THEN [isGithub |-> TRUE, repoSlug |-> projectPath]
        ELSE local

(***************************************************************************)
(* Texts, promise results, HTTP responses.                                 *)
(***************************************************************************)
\* The first len characters of the text read from src.
Text(src, len) == [src |-> src, len |-> len]

\* null (fetchGithubFile) and an absent field of the context.
Null == [src |-> <<>>, len |-> -1]

\* A variant of slice that takes the character at index n too.
sliceTextInclusive(t, n) == [t EXCEPT !.len = Min(t.len, n + 1)]

\* A variant of slice that keeps the whole text.
sliceTextKeepsAll(t, n) == t

\* String.prototype.slice(0, n)
sliceText(t, n) == [t EXCEPT !.len = Min(t.len, n)]

\* if (content): null and "" are falsy.
Truthy(t) == t # Null /\ t.len > 0

Fulfilled(v) == [settled |-> "fulfilled", value |-> v, reason |-> ""]
Rejected(m) == [settled |-> "rejected", value |-> Null, reason |-> m]

\* What fetch() can give for a contents request: it rejects (network
\* error), or resolves to a response that is not ok, or to one whose text()
\* is the file.
FetchFailed == "fetch failed"
JsonSyntaxError == "Unexpected token < in JSON"
NullTypeError == "Cannot read properties of null"

\* fetchGithubFile, given what its one request gives.
fetchGithubFile(res) ==
    IF res.kind = "IoError" THEN Rejected(FetchFailed)
    ELSE IF res.kind = "NotFound" THEN Fulfilled(Null)
    ELSE Fulfilled(res.text)

\* Entries of a listing response: blob and tree items.
Blob(p) == [path |-> p, type |-> "blob"]
Tree(p) == [path |-> p, type |-> "tree"]

\* A submodule entry of a listing response.
Commit(p) == [path |-> p, type |-> "commit"]

RECURSIVE BlobPathsNotTree(_)
\* A variant that drops the tree entries and keeps every other one.
BlobPathsNotTree(items) ==
    IF items = <<>> THEN <<>>
    ELSE (IF Head(items).type # "tree" THEN <<Head(items).path>> ELSE <<>>)
         \o BlobPathsNotTree(Tail(items))

RECURSIVE BlobPaths(_)
\* data.tree.filter(item => item.type === 'blob').map(item => item.path)
BlobPaths(items) ==
    IF items = <<>> THEN <<>>
    ELSE (IF Head(items).type = "blob" THEN <<Head(items).path>> ELSE <<>>)
         \o BlobPaths(Tail(items))

\* fetchGithubTree, given what its one request gives: the listing as a
\* fulfilled value (a sequence of paths) or a rejection.
fetchGithubTree(res) ==
    CASE res.kind = "IoError" -> [settled |-> "rejected", value |-> <<>>, reason |-> FetchFailed]
      [] res.kind = "NotFound" -> [settled |-> "fulfilled", value |-> <<>>, reason |-> ""]
      [] res.kind = "BadJson" -> [settled |-> "rejected", value |-> <<>>, reason |-> JsonSyntaxError]
      [] res.kind = "NullJson" -> [settled |-> "rejected", value |-> <<>>, reason |-> NullTypeError]
      [] res.kind \in {"NoTree", "NotArray"} -> [settled |-> "fulfilled", value |-> <<>>, reason |-> ""]
      [] OTHER -> [settled |-> "fulfilled", value |-> BlobPaths(res.tree), reason |-> ""]

(***************************************************************************)
(* The world outside the program: one remote repository and one local      *)
(* directory, fixed for the length of an extraction.                       *)
(***************************************************************************)
\* Lengths of the texts of the world (model bounds, not program constants).
LongReadme == 200001
ShortReadme == 120
SmallFile == 49999
LargeFile == 60000

S_dot_ts == <<".","t","s">>
S_node_modules == <<"n","o","d","e","_","m","o","d","u","l","e","s">>
S_x_ts == <<"x",".","t","s">>
S_lib == <<"l","i","b">>
S_Dist == <<"D","i","s","t">>
S_spec == <<"s","p","e","c">>
S_types_d_ts == <<"t","y","p","e","s",".","d",".","t","s">>

\* The i-th source file of the world: src/a.ts, src/aa.ts, ...
CandidateName(i) == [j \in 1..i |-> "a"] \o S_dot_ts
CandidatePath(i) == S_src_slash \o CandidateName(i)
IsCandidate(p, n) == \E i \in 1..n : p = CandidatePath(i)
CandidateIndex(p) == Len(p) - 7

\* path.join of a directory and a name.
join(dir, name) == IF dir = <<>> THEN name ELSE dir \o <<"/">> \o name

\* path.relative(root, f) for f below root.
relative(root, f) == SubSeq(f, Len(root) + 2, Len(f))

\* The recursive listing of the repository: a directory entry, files the
\* filter rejects, and n source files, longest path first.
RemoteListing(n) ==
    << Tree(S_src), Blob(README_MD), Blob(join(S_node_modules, S_x_ts)),
       Blob(join(S_lib, S_types_d_ts)) >>
    \o [i \in 1..n |-> Blob(CandidatePath(n + 1 - i))]

FaultKinds == {"IoError", "NotFound", "Empty", "Ok"}

\* No repository, no directory.
VoidWorld ==
    [kind |-> "void", readmeU |-> "NotFound", readmeL |-> "NotFound",
     tree |-> "NotFound", n |-> 0, file |-> <<>>, size |-> SmallFile,
     root |-> "Missing"]

\* States of the repository o/r and outcomes of the requests to it: README
\* and listing outcomes in every combination over a listing of at most one
\* source file; content outcomes in every combination over listings of at
\* most FaultTree source files; one listing of BigTree large files.
RemoteWorlds ==
    { [kind |-> "remote", readmeU |-> u, readmeL |-> l, tree |-> t, n |-> n,
       file |-> [i \in 1..n |-> "Ok"], size |-> SmallFile, root |-> "Missing"] :
        u \in {"IoError", "NotFound", "Text"},
        l \in {"IoError", "NotFound", "Text"},
        t \in {"IoError", "NotFound", "BadJson", "NullJson", "NoTree",
               "NotArray", "Ok"},
        n \in 0..1 }
    \cup
    { [kind |-> "remote", readmeU |-> "Text", readmeL |-> "NotFound",
       tree |-> "Ok", n |-> n, file |-> f, size |-> z, root |-> "Missing"] :
        n \in 1..FaultTree,
        f \in UNION { [1..k -> FaultKinds] : k \in 1..FaultTree },
        z \in {SmallFile, LargeFile} }
    \cup
    { [kind |-> "remote", readmeU |-> "Text", readmeL |-> "NotFound",
       tree |-> "Ok", n |-> BigTree, file |-> [i \in 1..BigTree |-> "Ok"],
       size |-> LargeFile, root |-> "Missing"] }

\* States of the local path /p and outcomes of the reads below it.
LocalWorlds ==
    { [kind |-> "local", readmeU |-> "NotFound", readmeL |-> "NotFound",
       tree |-> "NotFound", n |-> 0, file |-> <<>>, size |-> SmallFile,
       root |-> r] : r \in {"Missing", "File"} }
    \cup
    { [kind |-> "local", readmeU |-> u, readmeL |-> l, tree |-> t, n |-> n,
       file |-> f, size |-> z, root |-> "Dir"] :
        u \in {"NotFound", "Text"}, l \in {"NotFound", "Text"},
        t \in {"IoError", "Ok"}, n \in 0..FaultTree,
        f \in UNION { [1..k -> {"IoError", "Empty", "Ok"}] : k \in 0..FaultTree },
        z \in {SmallFile, LargeFile} }
    \cup
    { [kind |-> "local", readmeU |-> "Text", readmeL |-> "NotFound",
       tree |-> "Ok", n |-> BigTree, file |-> [i \in 1..BigTree |-> "Ok"],
       size |-> z, root |-> "Dir"] : z \in {SmallFile, LargeFile} }

WellFormed(w) == DOMAIN w.file = 1..w.n /\ (w.tree # "Ok" => w.n = 0)

\* The worlds a request is explored in: the repository varies for the
\* references that name it, the directory for the reference /p.
WorldsFor(projectPath) ==
    IF projectPath \in {P_SLUG, P_URL}
    THEN { w \in RemoteWorlds : WellFormed(w) }
    ELSE IF projectPath = P_ABS
    THEN { w \in LocalWorlds : WellFormed(w) }
    ELSE {VoidWorld}

\* A request to the hosting API.
ContentsRequest(repo, path) == [api |-> "contents", repo |-> repo, path |-> path]
TreeRequest(repo) == [api |-> "tree", repo |-> repo, path |-> <<>>]

\* What the world answers to a contents request or a local read.
FileOutcome(w, path) ==
    LET kind == IF path = README_MD THEN w.readmeU
                ELSE IF path = readme_md THEN w.readmeL
                ELSE IF IsCandidate(path, w.n) THEN w.file[CandidateIndex(path)]
                ELSE "NotFound"
        len == IF kind = "Empty" THEN 0
               ELSE IF path = README_MD THEN LongReadme
               ELSE IF path = readme_md THEN ShortReadme
               ELSE w.size
    IN  IF kind \in {"IoError", "NotFound"}
        THEN [kind |-> kind, text |-> Null]
        ELSE [kind |-> "Ok", text |-> Text(path, len)]

ContentsResponse(w, req) ==
    IF w.kind = "remote" /\ req.repo = P_SLUG
    THEN FileOutcome(w, req.path)
    ELSE [kind |-> "NotFound", text |-> Null]

TreeResponse(w, req) ==
    IF w.kind = "remote" /\ req.repo = P_SLUG
    THEN [kind |-> w.tree, tree |-> RemoteListing(w.n)]
    ELSE [kind |-> "NotFound", tree |-> <<>>]

(***************************************************************************)
(* State.                                                                  *)
(***************************************************************************)
VARIABLES
    variant,        \* which program runs
    request,        \* its input: the request body, or the arguments of the call
    world,          \* the repository and the directory
    pc,             \* the await the program is suspended at
    repoSlug,
    context,        \* the ExtractionContext under construction
    selectedFiles,
    totalSize,
    pending,        \* paths whose content fetch is in flight
    idx,            \* position of the sequential local loops
    requests,       \* requests issued to the hosting API, in order
    fsOps,          \* filesystem calls issued, in order
    result,         \* what the caller gets
    input,          \* the argument of a function applied on its own
    output,         \* what the function gave
    document,       \* the app document of the store
    handlers        \* the generate-aso requests in progress

vars == << variant, request, world, pc, repoSlug, context, selectedFiles,
           totalSize, pending, idx, requests, fsOps, result, input, output,
           document, handlers >>

\* No generate-aso request, the document as it was created.
NoDocument == [isGenerating |-> FALSE, localizations |-> "current"]

IdleAso == document = NoDocument /\ handlers = <<>>

Variants == {"lib", "remoteOnly", "withLocal", "legacy"}

NoFiles == [p \in {} |-> Null]

\* const context = { path: projectPath, files: {}, structure: [] }
NewContext(projectPath) ==
    [path |-> projectPath, files |-> NoFiles, structure |-> <<>>,
     readme |-> Null, packageJson |-> "absent"]

NoResult ==
    [kind |-> "pending", status |-> 0, error |-> <<>>, body |-> NewContext(<<>>)]

\* new Response(JSON.stringify({ error }), { status })
ErrorResponse(status, error) ==
    [kind |-> "response", status |-> status, error |-> error,
     body |-> NewContext(<<>>)]

\* new Response(JSON.stringify(context), { status: 200 })
OkResponse(ctx) ==
    [kind |-> "response", status |-> 200, error |-> <<>>, body |-> ctx]

\* return context (analyzeGithubProject)
Returned(ctx) == [kind |-> "returned", status |-> 0, error |-> <<>>, body |-> ctx]

\* A variant of the outermost catch that answers without the message.
CaughtWithoutMessage(v, message) ==
    CASE v = "lib" ->
            [kind |-> "thrown", status |-> 0, error |-> <<message>>,
             body |-> NewContext(<<>>)]
      [] OTHER -> ErrorResponse(500, <<"Internal Server Error">>)

\* The outermost catch of each handler; analyzeGithubProject has none, its
\* promise rejects.
Caught(v, message) ==
    CASE v = "lib" ->
            [kind |-> "thrown", status |-> 0, error |-> <<message>>,
             body |-> NewContext(<<>>)]
      [] v = "remoteOnly" -> ErrorResponse(500, <<"Server Error: ", message>>)
      [] OTHER -> ErrorResponse(500, <<message>>)

Requests ==
    [body : {"object"}, projectPath : ProjectPaths \cup {Undefined, <<>>}]
    \cup [body : {"unparseable", "null"}, projectPath : {Undefined}]

Init ==
    /\ variant \in Variants
    /\ request \in Requests
    /\ variant = "lib" => request.body = "object"
    /\ world \in WorldsFor(request.projectPath)
    /\ pc = "start"
    /\ repoSlug = <<>>
    /\ context = NewContext(<<>>)
    /\ selectedFiles = <<>>
    /\ totalSize = 0
    /\ pending = {}
    /\ idx = 0
    /\ requests = <<>>
    /\ fsOps = <<>>
    /\ result = NoResult
    /\ input = <<>>
    /\ output = <<>>
    /\ IdleAso

\* The program ends with the result r.
Finish(r) ==
    /\ pc' = "done"
    /\ result' = r

\* An exception reaches the outermost level of the program.
Throw(message) == Finish(Caught(variant, message))

(***************************************************************************)
(* Entry.                                                                  *)
(***************************************************************************)
MissingPathMessage ==
    IF variant = "legacy" THEN "Project path is required"
    ELSE "Project path required"

UnsupportedMessage ==
    "Local file analysis is not supported on this deployment. Please use a GitHub repository URL (e.g. \"username/repo\")."

StatOp(path) == [op |-> "stat", path |-> path]
ReadFileOp(path) == [op |-> "readFile", path |-> path]
ReaddirOp(path) == [op |-> "readdir", path |-> path]

\* The code between the classification and the first await of the remote
\* path: the request for README.md is issued.
StartRemote(slug) ==
    /\ repoSlug' = slug
    /\ requests' = Append(requests, ContentsRequest(slug, README_MD))
    /\ pc' = "readme"
    /\ UNCHANGED << result, fsOps >>

\* POST, from `await request.json()` to the first request it issues.
Receive ==
    /\ pc = "start"
    /\ UNCHANGED << input, output, document, handlers >>
    /\ variant # "lib"
    /\ UNCHANGED << variant, request, world, selectedFiles, totalSize,
                    pending, idx >>
    /\ IF request.body = "unparseable"
       THEN /\ Throw(JsonSyntaxError)
            /\ UNCHANGED << repoSlug, context, requests, fsOps >>
       ELSE IF request.body = "null"
       THEN /\ Throw(NullTypeError)
            /\ UNCHANGED << repoSlug, context, requests, fsOps >>
       ELSE IF Falsy(request.projectPath)
       THEN /\ Finish(ErrorResponse(400, <<MissingPathMessage>>))
            /\ UNCHANGED << repoSlug, context, requests, fsOps >>
       ELSE IF variant = "legacy"
       THEN /\ fsOps' = Append(fsOps, StatOp(request.projectPath))
            /\ pc' = "legacyStat"
            /\ UNCHANGED << repoSlug, context, requests, result >>
       ELSE LET d == DetectGithub(request.projectPath)
            IN  /\ context' = NewContext(request.projectPath)
                /\ IF d.isGithub
                   THEN StartRemote(d.repoSlug)
                   ELSE IF variant = "remoteOnly"
                   THEN /\ Finish(ErrorResponse(400, <<UnsupportedMessage>>))
                        /\ repoSlug' = d.repoSlug
                        /\ UNCHANGED << requests, fsOps >>
                   ELSE /\ fsOps' = Append(fsOps, StatOp(request.projectPath))
                        /\ pc' = "localStat"
                        /\ repoSlug' = d.repoSlug
                        /\ UNCHANGED << requests, result >>

\* analyzeGithubProject, from the call to the first request it issues.
Invoke ==
    /\ pc = "start"
    /\ UNCHANGED << input, output, document, handlers >>
    /\ variant = "lib"
    /\ UNCHANGED << variant, request, world, selectedFiles, totalSize,
                    pending, idx >>
    /\ context' = NewContext(request.projectPath)
    /\ LET d == DetectGithub(request.projectPath)
       IN  IF d.isGithub
           THEN StartRemote(d.repoSlug)
           ELSE /\ Throw("Invalid GitHub Repository URL")
                /\ repoSlug' = d.repoSlug
                /\ UNCHANGED << requests, fsOps >>

(***************************************************************************)
(* Remote path.                                                            *)
(***************************************************************************)
\* A variant that stores the README as it came.
StoreReadmeWhole(readme) ==
    /\ context' = IF Truthy(readme)
                  THEN [context EXCEPT !.readme = readme]
                  ELSE context
    /\ requests' = Append(requests, TreeRequest(repoSlug))
    /\ pc' = "tree"
    /\ UNCHANGED result

\* if (readme) context.readme = readme.slice(0, 200000), then the listing
\* request is issued.
StoreReadme(readme) ==
    /\ context' = IF Truthy(readme)
                  THEN [context EXCEPT !.readme = sliceText(readme, README_LIMIT)]
                  ELSE context
    /\ requests' = Append(requests, TreeRequest(repoSlug))
    /\ pc' = "tree"
    /\ UNCHANGED result

\* The README.md request settles.  A rejection goes to the .catch handler,
\* which issues the request for readme.md; a fulfilled value, null included,
\* is the readme.
ReadmeDone ==
    /\ pc = "readme"
    /\ UNCHANGED << input, output, document, handlers >>
    /\ UNCHANGED << variant, request, world, repoSlug, selectedFiles,
                    totalSize, pending, idx, fsOps >>
    /\ LET r == fetchGithubFile(
                    ContentsResponse(world, ContentsRequest(repoSlug, README_MD)))
       IN  IF r.settled = "rejected"
           THEN /\ requests' = Append(requests, ContentsRequest(repoSlug, readme_md))
                /\ pc' = "readmeFallback"
                /\ UNCHANGED << context, result >>
           ELSE StoreReadme(r.value)

\* The readme.md request of the .catch handler settles; its rejection is the
\* rejection of the awaited chain.
ReadmeFallbackDone ==
    /\ pc = "readmeFallback"
    /\ UNCHANGED << input, output, document, handlers >>
    /\ UNCHANGED << variant, request, world, repoSlug, selectedFiles,
                    totalSize, pending, idx, fsOps >>
    /\ LET r == fetchGithubFile(
                    ContentsResponse(world, ContentsRequest(repoSlug, readme_md)))
       IN  IF r.settled = "rejected"
           THEN /\ Throw(r.reason)
                /\ UNCHANGED << context, requests >>
           ELSE StoreReadme(r.value)

RECURSIVE ContentsRequests(_, _)
ContentsRequests(slug, paths) ==
    IF paths = <<>> THEN <<>>
    ELSE <<ContentsRequest(slug, Head(paths))>> \o ContentsRequests(slug, Tail(paths))

\* selectedFiles.map(async f => ...) up to each callback's await: every
\* callback runs its check against the totalSize of that moment and issues
\* its request.
Dispatched(selected, total) ==
    IF total >= TOTAL_CODE_LIMIT THEN <<>> ELSE selected

\* After `await Promise.all(fetchPromises)`: the handlers answer, the
\* library function asks for package.json.
AfterAll(ctx, reqs) ==
    IF variant = "lib"
    THEN /\ requests' = Append(reqs, ContentsRequest(repoSlug, package_json))
         /\ pc' = "pkg"
         /\ UNCHANGED result
    ELSE /\ requests' = reqs
         /\ Finish(OkResponse(ctx))

\* The listing request settles: filter, rank, select, dispatch.
TreeDone ==
    /\ pc = "tree"
    /\ UNCHANGED << input, output, document, handlers >>
    /\ UNCHANGED << variant, request, world, repoSlug, idx, fsOps >>
    /\ LET r == fetchGithubTree(TreeResponse(world, TreeRequest(repoSlug)))
       IN  IF r.settled = "rejected"
           THEN /\ Throw(r.reason)
                /\ UNCHANGED << context, selectedFiles, totalSize, pending,
                                requests >>
           ELSE LET allFiles == r.value
                    codeFiles == SortByScore(SelectSeqBy(allFiles, variant), FALSE)
                    selected == slice(codeFiles, MAX_CODE_FILES)
                    ctx == [context EXCEPT
                                !.structure = slice(codeFiles, STRUCTURE_LIMIT)]
                    sent == Dispatched(selected, 0)
                    reqs == requests \o ContentsRequests(repoSlug, sent)
                IN  /\ selectedFiles' = selected
                    /\ context' = ctx
                    /\ totalSize' = 0
                    /\ pending' = Range(sent)
                    /\ IF sent = <<>>
                       THEN AfterAll(ctx, reqs)
                       ELSE /\ requests' = reqs
                            /\ pc' = "fetching"
                            /\ UNCHANGED result

\* A variant of the callback that tests the budget when the content has
\* arrived.
FetchDoneChecksLate(f) ==
    /\ f \in pending
    /\ UNCHANGED << input, output, document, handlers >>
    /\ pending' = pending \ {f}
    /\ UNCHANGED << variant, request, world, repoSlug, selectedFiles, idx,
                    fsOps >>
    /\ LET r == fetchGithubFile(
                    ContentsResponse(world, ContentsRequest(repoSlug, f)))
       IN  IF r.settled = "rejected"
           THEN /\ UNCHANGED << context, totalSize, requests >>
                /\ IF pc = "fetching"
                   THEN Throw(r.reason)
                   ELSE UNCHANGED << pc, result >>
           ELSE LET content == r.value
                    truncated == sliceText(content, MAX_FILE_SIZE)
                    ctx == IF Truthy(content) /\ totalSize < TOTAL_CODE_LIMIT
                           THEN [context EXCEPT !.files =
                                    [p \in DOMAIN context.files \cup {f} |->
                                        IF p = f THEN truncated
                                        ELSE context.files[p]]]
                           ELSE context
                IN  /\ context' = ctx
                    /\ totalSize' = IF Truthy(content) /\ totalSize < TOTAL_CODE_LIMIT
                                    THEN totalSize + truncated.len
                                    ELSE totalSize
                    /\ IF pc = "fetching" /\ pending' = {}
                       THEN AfterAll(ctx, requests)
                       ELSE UNCHANGED << pc, result, requests >>

\* The content request of f settles and its callback runs to the end.  A
\* rejection rejects Promise.all unless it has settled already; the last
\* fulfilment resolves it.  Fetches still in flight after a rejection keep
\* running: nothing cancels them.
FetchDone(f) ==
    /\ f \in pending
    /\ UNCHANGED << input, output, document, handlers >>
    /\ pending' = pending \ {f}
    /\ UNCHANGED << variant, request, world, repoSlug, selectedFiles, idx,
                    fsOps >>
    /\ LET r == fetchGithubFile(
                    ContentsResponse(world, ContentsRequest(repoSlug, f)))
       IN  IF r.settled = "rejected"
           THEN /\ UNCHANGED << context, totalSize, requests >>
                /\ IF pc = "fetching"
                   THEN Throw(r.reason)
                   ELSE UNCHANGED << pc, result >>
           ELSE LET content == r.value
                    truncated == sliceText(content, MAX_FILE_SIZE)
                    ctx == IF Truthy(content)
                           THEN [context EXCEPT !.files =
                                    [p \in DOMAIN context.files \cup {f} |->
                                        IF p = f THEN truncated
                                        ELSE context.files[p]]]
                           ELSE context
                IN  /\ context' = ctx
                    /\ totalSize' = IF Truthy(content)
                                    THEN totalSize + truncated.len
                                    ELSE totalSize
                    /\ IF pc = "fetching" /\ pending' = {}
                       THEN AfterAll(ctx, requests)
                       ELSE UNCHANGED << pc, result, requests >>

\* The package.json request of analyzeGithubProject settles, inside a try
\* whose catch is empty; then the context is returned.
PkgDone ==
    /\ pc = "pkg"
    /\ UNCHANGED << input, output, document, handlers >>
    /\ UNCHANGED << variant, request, world, repoSlug, selectedFiles,
                    totalSize, pending, idx, requests, fsOps >>
    /\ \E o \in {"IoError", "NotFound", "BadJson", "Ok"} :
        /\ (world.kind # "remote" \/ repoSlug # P_SLUG) => o = "NotFound"
        /\ context' = IF o = "Ok"
                      THEN [context EXCEPT !.packageJson = "parsed"]
                      ELSE context
        /\ Finish(Returned(context'))

(***************************************************************************)
(* Local path.                                                             *)
(***************************************************************************)
File(name) == [name |-> name, kind |-> "file", children |-> <<>>]
Dir(name, children) == [name |-> name, kind |-> "dir", children |-> children]

\* The directory /p: a README, a dependency tree, n source files below src,
\* a declaration file next to a directory of specs, and a directory whose
\* name is an ignore pattern in another letter case.
LocalEntries(n) ==
    << File(README_MD),
       Dir(S_node_modules, <<File(S_x_ts)>>),
       Dir(S_src, [i \in 1..n |-> File(CandidateName(n + 1 - i))]),
       Dir(S_lib, <<File(S_types_d_ts), Dir(S_spec, <<File(S_x_ts)>>)>>),
       Dir(S_Dist, <<File(S_x_ts)>>) >>

\* What readdir gives for /p: nothing when the directory holds neither a
\* README nor a source file.
DirEntries(w) ==
    IF w.n = 0 /\ w.readmeU = "NotFound" /\ w.readmeL = "NotFound"
    THEN <<>>
    ELSE LocalEntries(w.n)

RECURSIVE walkLocalDirNoPrune(_, _, _, _)
\* A variant of the walker that descends into every directory.
walkLocalDirNoPrune(entries, dir, rootDir, acc) ==
    IF entries = <<>> THEN acc
    ELSE LET e == Head(entries)
             filePath == join(dir, e.name)
             relPath == join(rootDir, e.name)
             stat == [acc EXCEPT !.ops = Append(@, StatOp(filePath))]
             next ==
                IF e.kind = "dir"
                THEN IF TRUE
                     THEN walkLocalDirNoPrune(e.children, filePath, relPath,
                            [stat EXCEPT !.ops = Append(@, ReaddirOp(filePath))])
                     ELSE stat
                ELSE IF isInterestingFileLocal(relPath)
                     THEN [stat EXCEPT !.fileList = Append(@, filePath)]
                     ELSE stat
         IN  walkLocalDirNoPrune(Tail(entries), dir, rootDir, next)

RECURSIVE walkLocalDir(_, _, _, _)
\* walkLocalDir over the entries that readdir(dir) gave: the files pushed to
\* fileList and the filesystem calls made, in order.
walkLocalDir(entries, dir, rootDir, acc) ==
    IF entries = <<>> THEN acc
    ELSE LET e == Head(entries)
             filePath == join(dir, e.name)
             relPath == join(rootDir, e.name)
             stat == [acc EXCEPT !.ops = Append(@, StatOp(filePath))]
             next ==
                IF e.kind = "dir"
                THEN IF ~ \E k \in 1..Len(IGNORE_PATTERNS_POST) :
                            includes(relPath, IGNORE_PATTERNS_POST[k])
                     THEN walkLocalDir(e.children, filePath, relPath,
                            [stat EXCEPT !.ops = Append(@, ReaddirOp(filePath))])
                     ELSE stat
                ELSE IF isInterestingFileLocal(relPath)
                     THEN [stat EXCEPT !.fileList = Append(@, filePath)]
                     ELSE stat
         IN  walkLocalDir(Tail(entries), dir, rootDir, next)

RECURSIVE RelativeAll(_, _)
\* allFiles.map(f => path.relative(projectPath, f))
RelativeAll(root, files) ==
    IF files = <<>> THEN <<>>
    ELSE <<relative(root, Head(files))>> \o RelativeAll(root, Tail(files))

LocalVariantMessage == "Local path invalid or inaccessible"

\* A variant of the catch of the local block that leaves the failure to the
\* outermost catch.
LocalCaughtRethrows == Throw("ENOENT: no such file or directory, stat '/p'")

\* The catch of the local block: every failure below it is a 404.
LocalCaught == Finish(ErrorResponse(404, <<LocalVariantMessage>>))

\* What exists at the path the request names.
RootKind == IF request.projectPath = P_ABS THEN world.root ELSE "Missing"

\* fs.stat(projectPath) settles.
LocalStat ==
    /\ pc = "localStat"
    /\ UNCHANGED << input, output, document, handlers >>
    /\ UNCHANGED << variant, request, world, repoSlug, context, selectedFiles,
                    totalSize, pending, requests >>
    /\ IF RootKind # "Dir"
       THEN /\ LocalCaught
            /\ UNCHANGED << idx, fsOps >>
       ELSE /\ idx' = 1
            /\ fsOps' = Append(fsOps, ReadFileOp(join(request.projectPath, README_MD)))
            /\ pc' = "localReadme"
            /\ UNCHANGED result

ReadmeNames == << README_MD, readme_md >>

\* A readFile of the README loop settles: the first name that can be read
\* is the readme; after the loop the walk starts.
LocalReadme ==
    /\ pc = "localReadme"
    /\ UNCHANGED << input, output, document, handlers >>
    /\ UNCHANGED << variant, request, world, repoSlug, selectedFiles,
                    totalSize, pending, requests, result >>
    /\ LET o == FileOutcome(world, ReadmeNames[idx])
       IN  IF o.kind = "Ok"
           THEN /\ context' = [context EXCEPT
                                  !.readme = sliceText(o.text, README_LIMIT)]
                /\ fsOps' = Append(fsOps, ReaddirOp(request.projectPath))
                /\ pc' = "localWalk"
                /\ UNCHANGED idx
           ELSE IF idx < Len(ReadmeNames)
           THEN /\ idx' = idx + 1
                /\ fsOps' = Append(fsOps,
                        ReadFileOp(join(request.projectPath, ReadmeNames[idx + 1])))
                /\ UNCHANGED << context, pc >>
           ELSE /\ fsOps' = Append(fsOps, ReaddirOp(request.projectPath))
                /\ pc' = "localWalk"
                /\ UNCHANGED << context, idx >>

\* The walk ends (its awaits are sequential and touch nothing shared): rank,
\* select, and start the read loop.
LocalWalk ==
    /\ pc = "localWalk"
    /\ UNCHANGED << input, output, document, handlers >>
    /\ UNCHANGED << variant, request, world, repoSlug, pending, requests >>
    /\ IF world.tree = "IoError"
       THEN /\ LocalCaught
            /\ UNCHANGED << context, selectedFiles, totalSize, idx, fsOps >>
       ELSE LET w == walkLocalDir(DirEntries(world), request.projectPath,
                                  <<>>, [fileList |-> <<>>, ops |-> fsOps])
                relFiles == SortByScore(
                                RelativeAll(request.projectPath, w.fileList), TRUE)
                selected == slice(relFiles, MAX_CODE_FILES)
                ctx == [context EXCEPT
                            !.structure = slice(relFiles, STRUCTURE_LIMIT)]
            IN  /\ selectedFiles' = selected
                /\ context' = ctx
                /\ totalSize' = 0
                /\ IF selected = <<>> \/ 0 >= TOTAL_CODE_LIMIT
                   THEN /\ Finish(OkResponse(ctx))
                        /\ fsOps' = w.ops
                        /\ UNCHANGED idx
                   ELSE /\ idx' = 1
                        /\ fsOps' = Append(w.ops,
                                ReadFileOp(join(request.projectPath, selected[1])))
                        /\ pc' = "localRead"
                        /\ UNCHANGED result

\* The readFile of selectedFiles[idx] settles: store, then the loop's next
\* round with its budget check.
LocalRead ==
    /\ pc = "localRead"
    /\ UNCHANGED << input, output, document, handlers >>
    /\ UNCHANGED << variant, request, world, repoSlug, selectedFiles, pending,
                    requests >>
    /\ LET f == selectedFiles[idx]
           o == FileOutcome(world, f)
           truncated == sliceText(o.text, MAX_FILE_SIZE)
           ctx == IF o.kind = "Ok"
                  THEN [context EXCEPT !.files =
                            [p \in DOMAIN context.files \cup {f} |->
                                IF p = f THEN truncated ELSE context.files[p]]]
                  ELSE context
           total == IF o.kind = "Ok" THEN totalSize + truncated.len ELSE totalSize
       IN  /\ context' = ctx
           /\ totalSize' = total
           /\ IF idx = Len(selectedFiles) \/ total >= TOTAL_CODE_LIMIT
              THEN /\ Finish(OkResponse(ctx))
                   /\ UNCHANGED << idx, fsOps >>
              ELSE /\ idx' = idx + 1
                   /\ fsOps' = Append(fsOps,
                        ReadFileOp(join(request.projectPath, selectedFiles[idx + 1])))
                   /\ UNCHANGED << pc, result >>

(***************************************************************************)
(* The local-only handler of analyze-project.ts.                           *)
(***************************************************************************)
\* fs.stat(projectPath) settles.
LegacyStat ==
    /\ pc = "legacyStat"
    /\ UNCHANGED << input, output, document, handlers >>
    /\ UNCHANGED << variant, request, world, repoSlug, selectedFiles,
                    totalSize, pending, idx, requests >>
    /\ IF RootKind = "Missing"
       THEN /\ Finish(ErrorResponse(404, <<"Path does not exist">>))
            /\ UNCHANGED << context, fsOps >>
       ELSE IF RootKind = "File"
       THEN /\ Finish(ErrorResponse(400, <<"Path is not a directory">>))
            /\ UNCHANGED << context, fsOps >>
       ELSE /\ context' = NewContext(request.projectPath)
            /\ fsOps' = Append(fsOps,
                    ReadFileOp(join(request.projectPath, package_json)))
            /\ pc' = "legacyGather"
            /\ UNCHANGED result

RECURSIVE Names(_)
Names(entries) ==
    IF entries = <<>> THEN <<>>
    ELSE <<Head(entries).name>> \o Names(Tail(entries))

\* package.json, the README loop and the top-level scan; each is inside a
\* try with an empty catch, so every outcome ends in the 200 response.
LegacyGather ==
    /\ pc = "legacyGather"
    /\ UNCHANGED << input, output, document, handlers >>
    /\ UNCHANGED << variant, request, world, repoSlug, selectedFiles,
                    totalSize, pending, idx, requests >>
    /\ \E pkg \in {"IoError", "BadJson", "Ok"} :
        LET u == FileOutcome(world, README_MD)
            l == FileOutcome(world, readme_md)
            readme == IF u.kind = "Ok" THEN sliceText(u.text, LEGACY_README_LIMIT)
                      ELSE IF l.kind = "Ok" THEN sliceText(l.text, LEGACY_README_LIMIT)
                      ELSE Null
            ctx == [context EXCEPT
                        !.packageJson = IF pkg = "Ok" THEN "parsed" ELSE "absent",
                        !.readme = readme,
                        !.structure = IF world.tree = "IoError" THEN <<>>
                                      ELSE Names(DirEntries(world))]
        IN  /\ context' = ctx
            /\ fsOps' = fsOps \o << ReadFileOp(join(request.projectPath, README_MD)),
                                    ReaddirOp(request.projectPath) >>
            /\ Finish(OkResponse(ctx))

(***************************************************************************)
(* Specification.                                                          *)
(***************************************************************************)
Next ==
    \/ Receive
    \/ Invoke
    \/ ReadmeDone
    \/ ReadmeFallbackDone
    \/ TreeDone
    \/ \E f \in pending : FetchDone(f)
    \/ PkgDone
    \/ LocalStat
    \/ LocalReadme
    \/ LocalWalk
    \/ LocalRead
    \/ LegacyStat
    \/ LegacyGather

Spec == Init /\ [][Next]_vars

(***************************************************************************)
(* analyzeGithubProject("o/r") on a repository with more source files than *)
(* are selected, every request answered.                                   *)
(***************************************************************************)
WideWorld ==
    [kind |-> "remote", readmeU |-> "Text", readmeL |-> "NotFound",
     tree |-> "Ok", n |-> WideTree, file |-> [i \in 1..WideTree |-> "Ok"],
     size |-> LargeFile, root |-> "Missing"]

InitWide ==
    /\ variant = "lib"
    /\ request = [body |-> "object", projectPath |-> P_SLUG]
    /\ world = WideWorld
    /\ pc = "start"
    /\ repoSlug = <<>>
    /\ context = NewContext(<<>>)
    /\ selectedFiles = <<>>
    /\ totalSize = 0
    /\ pending = {}
    /\ idx = 0
    /\ requests = <<>>
    /\ fsOps = <<>>
    /\ result = NoResult
    /\ input = <<>>
    /\ output = <<>>
    /\ IdleAso

NextWide ==
    \/ Invoke
    \/ ReadmeDone
    \/ TreeDone
    \/ \E f \in pending : FetchDone(f)
    \/ PkgDone

SpecWide == InitWide /\ [][NextWide]_vars

(***************************************************************************)
(* The functions on their own: a specification applies one function to     *)
(* arguments drawn from a set, the program stays where it is.              *)
(***************************************************************************)
program == << request, world, repoSlug, context, selectedFiles, totalSize,
              pending, idx, requests, fsOps, result >>

Idle ==
    /\ request = [body |-> "object", projectPath |-> Undefined]
    /\ world = VoidWorld
    /\ repoSlug = <<>>
    /\ context = NewContext(<<>>)
    /\ selectedFiles = <<>>
    /\ totalSize = 0
    /\ pending = {}
    /\ idx = 0
    /\ requests = <<>>
    /\ fsOps = <<>>
    /\ result = NoResult

\* Directories of the paths given to the filter: plain ones, and one per
\* ignore pattern in another letter case.
FilterDirs ==
    { <<>>,
      <<"s","r","c","/">>,
      <<"a","p","p","/","l","i","b","/">>,
      <<"N","o","d","e","_","M","o","d","u","l","e","s","/">>,
      <<"D","I","S","T","/">>,
      <<"B","u","i","l","d","/">>,
      <<"O","U","T","/">>,
      <<".","G","i","t","/">>,
      <<".","G","I","T","H","U","B","/">>,
      <<"T","e","s","t","/">>,
      <<"T","E","S","T","S","/">>,
      <<"_","_","T","e","s","t","s","_","_","/">>,
      <<"S","P","E","C","/">>,
      <<"A","s","s","e","t","s","/">>,
      <<"P","U","B","L","I","C","/">>,
      <<"C","o","m","p","o","n","e","n","t","s","/","U","i","/">>,
      <<"L","O","C","A","L","E","S","/">>,
      <<"I","1","8","N","/">>,
      <<"T","R","A","N","S","L","A","T","I","O","N","S","/">>,
      <<"L","a","n","g","/">>,
      <<"L","1","0","N","/">> }

FilterStems == { <<"a">>,
                 <<"I","n","d","e","x">>,
                 <<>>,
                 <<"L","a","y","o","u","t">> }

FilterExts ==
    { <<".","t","s">>,
      <<".","T","S">>,
      <<".","t","s","x">>,
      <<".","S","w","i","f","t">>,
      <<".","d",".","t","s">>,
      <<".","D",".","T","S">>,
      <<".","m","d">>,
      <<".","j","s","o","n">>,
      <<>>,
      <<".","t","-","s">>,
      <<".","c">>,
      <<".","p","n","g">> }

FilterPaths ==
    { d \o n \o e : d \in FilterDirs, n \in FilterStems, e \in FilterExts }

\* The verdicts of the three copies of isInterestingFile: <<>> until the copy
\* has been applied, then <<TRUE>> or <<FALSE>>.
NoVerdicts == [lib |-> <<>>, remoteOnly |-> <<>>, withLocal |-> <<>>]

InitFilter ==
    /\ variant = "isInterestingFile"
    /\ pc = "start"
    /\ Idle
    /\ IdleAso
    /\ input \in FilterPaths
    /\ output = NoVerdicts

\* isInterestingFile of github.ts.
FilterLib ==
    /\ variant = "isInterestingFile"
    /\ output.lib = <<>>
    /\ output' = [output EXCEPT !.lib = <<isInterestingFile(input)>>]
    /\ UNCHANGED << variant, pc, program, input, document, handlers >>

\* isInterestingFile of the POST handler without local support.
FilterRemotePost ==
    /\ variant = "isInterestingFile"
    /\ output.remoteOnly = <<>>
    /\ output' = [output EXCEPT
                    !.remoteOnly = <<isInterestingFileRemotePost(input)>>]
    /\ UNCHANGED << variant, pc, program, input, document, handlers >>

\* isInterestingFile of the POST handler with local support, which
\* walkLocalDir calls.
FilterLocal ==
    /\ variant = "isInterestingFile"
    /\ output.withLocal = <<>>
    /\ output' = [output EXCEPT !.withLocal = <<isInterestingFileLocal(input)>>]
    /\ UNCHANGED << variant, pc, program, input, document, handlers >>

NextFilter == FilterLib \/ FilterRemotePost \/ FilterLocal

SpecFilter == InitFilter /\ [][NextFilter]_vars

(***************************************************************************)
(* Ranking and selection on their own.                                     *)
(***************************************************************************)
\* Paths of one length with and without the substrings the comparator looks
\* for, a short path, and a path the filter rejects.
RankPool ==
    { <<"s","r","c","/","a","a","a","a","a","a",".","t","s">>,
      <<"p","a","g","e","s","/","m","a","i","n",".","t","s">>,
      <<"a","a","a","a","a","a","a","a","a","a",".","t","s">>,
      <<"p","a","g","e","s","/","a","a","a","a",".","t","s">>,
      <<"s","r","c","/","m","a","i","n","/","a",".","t","s">>,
      <<"m","a","i","n",".","t","s">>,
      <<"R","E","A","D","M","E",".","m","d">> }

\* The listings the ranking is applied to.
RankInputs ==
    { s \in UNION { [1..k -> RankPool] : k \in 0..MaxMixed } :
        \A i, j \in DOMAIN s : s[i] = s[j] => i = j }
    \cup { [i \in 1..n |-> CandidatePath(n + 1 - i)] : n \in 0..MaxCandidates }
    \cup { [i \in 1..n |-> CandidatePath(i)] : n \in 0..MaxCandidates }

NoRanking == [codeFiles |-> <<>>, selectedFiles |-> <<>>, structure |-> <<>>]

\* variant "lib" ranks a remote listing as github.ts does, variant
\* "withLocal" ranks the files of a walk as the local logic of POST does.
InitRank ==
    /\ variant \in {"lib", "withLocal"}
    /\ pc = "rank"
    /\ Idle
    /\ IdleAso
    /\ input \in RankInputs
    /\ output = NoRanking

\* allFiles.filter(isInterestingFile), then sort.
Rank ==
    /\ pc = "rank"
    /\ output' = [output EXCEPT !.codeFiles =
                    SortByScore(SelectSeqBy(input, variant), variant = "withLocal")]
    /\ pc' = "select"
    /\ UNCHANGED << variant, program, input, document, handlers >>

\* The two slices of the ranked list.
Select ==
    /\ pc = "select"
    /\ output' = [output EXCEPT
                    !.selectedFiles = slice(output.codeFiles, MAX_CODE_FILES),
                    !.structure = slice(output.codeFiles, STRUCTURE_LIMIT)]
    /\ pc' = "selected"
    /\ UNCHANGED << variant, program, input, document, handlers >>

NextRank == Rank \/ Select

SpecRank == InitRank /\ [][NextRank]_vars

(***************************************************************************)
(* fetchGithubTree on its own.                                             *)
(***************************************************************************)
TreeEntries ==
    UNION { {Blob(p), Tree(p), Commit(p)} : p \in {S_src, S_x_ts, S_lib} }

\* What the listing request gives: a successful response with a tree of up
\* to MaxEntries entries, or not found.
TreeInputs ==
    { [kind |-> k, tree |-> t] :
        k \in {"Ok", "NotFound"},
        t \in UNION { [1..n -> TreeEntries] : n \in 0..MaxEntries } }

InitTree ==
    /\ variant = "fetchGithubTree"
    /\ pc = "start"
    /\ Idle
    /\ IdleAso
    /\ input \in TreeInputs
    /\ output = <<>>

ListTree ==
    /\ variant = "fetchGithubTree"
    /\ pc = "start"
    /\ output' = fetchGithubTree(input)
    /\ pc' = "done"
    /\ UNCHANGED << variant, program, input, document, handlers >>

NextTree == ListTree

SpecTree == InitTree /\ [][NextTree]_vars

(***************************************************************************)
(* The generate-aso handler: up to MaxRequests requests for the same app   *)
(* document, each suspended at one of its awaits.                          *)
(***************************************************************************)
FirestoreFailed == "Firestore Update Failed: "

\* How analyzeGithubProject ends for the handler: with a context, or with
\* one of its exceptions.
AnalysisOutcomes == {"Ok", "Invalid GitHub Repository URL", FetchFailed}

\* How callGeminiApi and the reading of its answer end: a JSON text, an API
\* error, an answer without text, a text that JSON.parse rejects.
GenerationOutcomes ==
    {"Ok", "Gemini API Error (500): ", "No content generated", JsonSyntaxError}

\* The request bodies: all four parameters, one missing, not JSON.
AsoBodies == {"complete", "incomplete", "unparseable"}

NewHandler(body) ==
    [pc |-> "start", body |-> body, marked |-> FALSE, error |-> "",
     status |-> 0]

InitAso ==
    /\ variant = "generate-aso"
    /\ pc = "start"
    /\ Idle
    /\ input = <<>>
    /\ output = <<>>
    /\ document = NoDocument
    /\ handlers \in [1..MaxRequests -> { NewHandler(b) : b \in AsoBodies }]

\* new Response(...) of handler r.
Respond(r, status, error) ==
    handlers' = [handlers EXCEPT ![r].pc = "done", ![r].status = status,
                                 ![r].error = error]

\* The inner catch of handler r: the reset write is issued.
ResetAfter(r, error) ==
    handlers' = [handlers EXCEPT ![r].pc = "resetting", ![r].error = error]

\* From `await request.json()` to the first write.
AsoReceive(r) ==
    /\ handlers[r].pc = "start"
    /\ UNCHANGED << variant, pc, program, input, output >>
    /\ UNCHANGED document
    /\ IF handlers[r].body = "unparseable"
       THEN Respond(r, 500, JsonSyntaxError)
       ELSE IF handlers[r].body = "incomplete"
       THEN Respond(r, 400, "Missing required parameters")
       ELSE handlers' = [handlers EXCEPT ![r].pc = "marking"]

\* updateFirestore({ isGenerating: true }) settles.
AsoMarked(r) ==
    /\ handlers[r].pc = "marking"
    /\ UNCHANGED << variant, pc, program, input, output >>
    /\ \E ok \in BOOLEAN :
        IF ok
        THEN /\ document' = [document EXCEPT !.isGenerating = TRUE]
             /\ handlers' = [handlers EXCEPT ![r].pc = "analyzing",
                                             ![r].marked = TRUE]
        ELSE /\ UNCHANGED document
             /\ Respond(r, 500, FirestoreFailed)

\* analyzeGithubProject settles.
AsoAnalyzed(r) ==
    /\ handlers[r].pc = "analyzing"
    /\ UNCHANGED << variant, pc, program, input, output >>
    /\ UNCHANGED document
    /\ \E o \in AnalysisOutcomes :
        IF o = "Ok"
        THEN handlers' = [handlers EXCEPT ![r].pc = "generating"]
        ELSE ResetAfter(r, o)

\* callGeminiApi settles; its text is parsed and the final update issued.
AsoGenerated(r) ==
    /\ handlers[r].pc = "generating"
    /\ UNCHANGED << variant, pc, program, input, output >>
    /\ UNCHANGED document
    /\ \E o \in GenerationOutcomes :
        IF o = "Ok"
        THEN handlers' = [handlers EXCEPT ![r].pc = "saving"]
        ELSE ResetAfter(r, o)

\* The final updateFirestore (localizations, isGenerating: false) settles.
AsoSaved(r) ==
    /\ handlers[r].pc = "saving"
    /\ UNCHANGED << variant, pc, program, input, output >>
    /\ \E ok \in BOOLEAN :
        IF ok
        THEN /\ document' = [isGenerating |-> FALSE,
                             localizations |-> "generated"]
             /\ Respond(r, 200, "")
        ELSE /\ UNCHANGED document
             /\ ResetAfter(r, FirestoreFailed)

\* updateFirestore({ isGenerating: false }).catch(() => {}) settles, then
\* the 500 response.
AsoResetDone(r) ==
    /\ handlers[r].pc = "resetting"
    /\ UNCHANGED << variant, pc, program, input, output >>
    /\ \E ok \in BOOLEAN :
        document' = IF ok THEN [document EXCEPT !.isGenerating = FALSE]
                    ELSE document
    /\ Respond(r, 500, handlers[r].error)

NextAso ==
    \/ \E r \in 1..MaxRequests : AsoReceive(r)
    \/ \E r \in 1..MaxRequests : AsoMarked(r)
    \/ \E r \in 1..MaxRequests : AsoAnalyzed(r)
    \/ \E r \in 1..MaxRequests : AsoGenerated(r)
    \/ \E r \in 1..MaxRequests : AsoSaved(r)
    \/ \E r \in 1..MaxRequests : AsoResetDone(r)

SpecAso == InitAso /\ [][NextAso]_vars

(***************************************************************************)
(* streamGeminiApi: the read loop over the body of an SSE response that is *)
(* delivered in chunks of any size.                                        *)
(***************************************************************************)
S_data == <<"d","a","t","a",":"," ">>
S_DONE == <<"[","D","O","N","E","]">>

\* The lines of a response: two events with a text (A, and B with a
\* carriage return before the line feed), the end marker, an event whose
\* payload is not JSON, a blank line, and a line without the space after
\* "data:".
StreamLines ==
    { <<"d","a","t","a",":"," ","A">>,
      <<"d","a","t","a",":"," ","B","\r">>,
      <<"d","a","t","a",":"," ","[","D","O","N","E","]">>,
      <<"d","a","t","a",":"," ","X">>,
      <<>>,
      <<"d","a","t","a",":","A">> }

Whitespace == {" ", "\t", "\r", "\n"}

RECURSIVE trim(_)
\* String.prototype.trim
trim(t) ==
    IF t = <<>> THEN t
    ELSE IF t[1] \in Whitespace THEN trim(Tail(t))
    ELSE IF t[Len(t)] \in Whitespace THEN trim(SubSeq(t, 1, Len(t) - 1))
    ELSE t

\* JSON.parse(jsonStr) and data.candidates?.[0]?.content?.parts?.[0]?.text:
\* the payloads A and B stand for objects that carry the text A and B; any
\* other payload makes JSON.parse throw or has no text, and nothing is
\* yielded.
TextOf(jsonStr) ==
    IF jsonStr \in { <<"A">>, <<"B">> } THEN <<jsonStr>> ELSE <<>>

RECURSIVE ProcessLines(_)
\* for (const line of lines): the texts yielded, and whether [DONE] made the
\* generator return.
ProcessLines(lines) ==
    IF lines = <<>> THEN [yielded |-> <<>>, returned |-> FALSE]
    ELSE LET line == Head(lines)
         IN  IF startsWith(line, S_data)
             THEN LET jsonStr == trim(SubSeq(line, 7, Len(line)))
                  IN  IF jsonStr = S_DONE
                      THEN [yielded |-> <<>>, returned |-> TRUE]
                      ELSE LET rest == ProcessLines(Tail(lines))
                           IN  [rest EXCEPT !.yielded = TextOf(jsonStr) \o @]
             ELSE ProcessLines(Tail(lines))

\* A variant of the loop body that parses the last, incomplete line with the
\* others and keeps nothing.
ConsumeKeepsNothing(buffer, chunk) ==
    LET p == ProcessLines(split(buffer \o chunk, "\n"))
    IN  [buffer |-> <<>>, yielded |-> p.yielded, returned |-> p.returned]

\* One round of the loop for a chunk: buffer += chunk; lines =
\* buffer.split('\n'); buffer = lines.pop() || ''; then the lines.
Consume(buffer, chunk) ==
    LET lines == split(buffer \o chunk, "\n")
        p == ProcessLines(SubSeq(lines, 1, Len(lines) - 1))
    IN  [buffer |-> lines[Len(lines)], yielded |-> p.yielded,
         returned |-> p.returned]

RECURSIVE Joined(_, _)
\* The body text of the lines: each followed by a line feed, the last one
\* only if it is not open.
Joined(lines, open) ==
    IF lines = <<>> THEN <<>>
    ELSE IF Len(lines) = 1 /\ open THEN Head(lines)
    ELSE Head(lines) \o <<"\n">> \o Joined(Tail(lines), open)

StreamInputs ==
    { [lines |-> l, open |-> o, text |-> Joined(l, o)] :
        l \in UNION { [1..n -> StreamLines] : n \in 1..MaxLines },
        o \in BOOLEAN }

\* Nothing read yet: the position in the body, the buffer, the texts
\* yielded so far, and where the generator is.
NoStream == [pos |-> 0, buffer |-> <<>>, pieces |-> <<>>, at |-> "read"]

InitStream ==
    /\ variant = "streamGeminiApi"
    /\ pc = "start"
    /\ Idle
    /\ IdleAso
    /\ input \in StreamInputs
    /\ output = NoStream

\* reader.read() gives the next k characters of the body.
ReadChunk ==
    /\ variant = "streamGeminiApi"
    /\ output.at = "read"
    /\ \E k \in 1..(Len(input.text) - output.pos) :
        LET chunk == SubSeq(input.text, output.pos + 1, output.pos + k)
            c == Consume(output.buffer, chunk)
        IN  output' = [pos |-> output.pos + k,
                       buffer |-> c.buffer,
                       pieces |-> output.pieces \o c.yielded,
                       at |-> IF c.returned THEN "returned" ELSE "read"]
    /\ UNCHANGED << variant, pc, program, input, document, handlers >>

\* reader.read() gives done: the loop breaks and the generator ends.
ReadDone ==
    /\ variant = "streamGeminiApi"
    /\ output.at = "read"
    /\ output.pos = Len(input.text)
    /\ output' = [output EXCEPT !.at = "ended"]
    /\ UNCHANGED << variant, pc, program, input, document, handlers >>

NextStream == ReadChunk \/ ReadDone

SpecStream == InitStream /\ [][NextStream]_vars

(***************************************************************************)
(* Properties.                                                             *)
(***************************************************************************)
RECURSIVE SumOfLengths(_, _)
\* The sum of the lengths of the values of files over the keys ks.
SumOfLengths(files, ks) ==
    IF ks = {} THEN 0
    ELSE LET k == CHOOSE x \in ks : TRUE
         IN  files[k].len + SumOfLengths(files, ks \ {k})

StoredTotal(files) == SumOfLengths(files, DOMAIN files)

\* The caller holds an extraction context.
HasContext ==
    \/ result.kind = "returned"
    \/ result.kind = "response" /\ result.status = 200

\* The extraction went through the remote path as far as the content
\* requests.
ContentRequested(f) == ContentsRequest(repoSlug, f) \in Range(requests)

\* C1: in the context an extraction returns, remote or local, the lengths of
\* the values of files add up to at most 500,000 characters.
C1_TotalWithinBudget ==
    HasContext => StoredTotal(result.body.files) <= TOTAL_CODE_LIMIT

\* C2: on the remote path, once the running total has reached 500,000 no
\* further fetch result is added to files.
C2_NothingAddedAfterBudget ==
    [][(requests # <<>> /\ totalSize >= TOTAL_CODE_LIMIT)
        => DOMAIN context'.files = DOMAIN context.files]_vars

\* C3: when the content fetch of a selected file fails (not found, or the
\* fetch rejects), the extraction still returns a context, which holds every
\* selected file whose fetch succeeds and not the failed one.
C3_FailedFetchIsolated ==
    LET outcome(f) == ContentsResponse(world, ContentsRequest(repoSlug, f))
    IN  (/\ pc = "done"
         /\ pending = {}
         /\ \E f \in Range(selectedFiles) :
                ContentRequested(f) /\ outcome(f).kind \in {"IoError", "NotFound"})
        => /\ HasContext
           /\ \A f \in Range(selectedFiles) :
                IF outcome(f).kind = "Ok" /\ outcome(f).text.len > 0
                THEN /\ f \in DOMAIN result.body.files
                     /\ result.body.files[f] = sliceText(outcome(f).text, MAX_FILE_SIZE)
                ELSE f \notin DOMAIN result.body.files

\* C4: when the README.md request reports not found, readme.md is requested
\* next, and if it exists its truncated text is the readme of the context.
C4_ReadmeFallbackOnNotFound ==
    LET upper == ContentsResponse(world, ContentsRequest(repoSlug, README_MD))
        lower == ContentsResponse(world, ContentsRequest(repoSlug, readme_md))
    IN  (/\ requests # <<>>
         /\ pc \notin {"start", "readme", "readmeFallback"}
         /\ upper.kind = "NotFound")
        => /\ ContentRequested(readme_md)
           /\ lower.kind = "Ok"
                => context.readme = sliceText(lower.text, README_LIMIT)

\* C5: on every failure of its request (network error, status that is not
\* ok, malformed body) fetchGithubTree resolves to the empty sequence.
C5_TreeFailureGivesEmpty ==
    LET res == TreeResponse(world, TreeRequest(repoSlug))
        r == fetchGithubTree(res)
    IN  (pc = "tree" /\ res.kind # "Ok")
        => r.settled = "fulfilled" /\ r.value = <<>>

\* C6: fetchGithubFile resolves to the text of the file or to null, whatever
\* its request gives; it never rejects.
C6_FileFetchNeverRejects ==
    \A f \in pending :
        LET res == ContentsResponse(world, ContentsRequest(repoSlug, f))
            r == fetchGithubFile(res)
        IN  /\ r.settled = "fulfilled"
            /\ r.value = IF res.kind = "Ok" THEN res.text ELSE Null

\* References of ProjectPaths that are not remote: an absolute path, one
\* segment, three segments, a github.com URL with an owner only, a string
\* that is not a URL.
LocalReferences == { P_ABS, P_ONE, P_THREE, P_URL_ONE, P_NOURL }

UnrecoveredFailure ==
    IF request.body = "unparseable" THEN JsonSyntaxError
    ELSE IF request.body = "null" THEN NullTypeError
    ELSE IF variant \in {"remoteOnly", "withLocal"} /\ world.kind = "remote"
    THEN IF world.readmeU = "IoError" /\ world.readmeL = "IoError" THEN FetchFailed
         ELSE IF world.tree = "IoError" THEN FetchFailed
         ELSE IF world.tree = "BadJson" THEN JsonSyntaxError
         ELSE IF world.tree = "NullJson" THEN NullTypeError
         ELSE IF \E i \in 1..world.n : world.file[i] = "IoError" THEN FetchFailed
         ELSE ""
    ELSE ""

\* C8: every run of an analyze-project handler ends in a Response with status
\* 200, 400, 404 or 500, and a failure nothing recovers from gives 500 with
\* the failure message in the error field.
C8_AlwaysAResponse ==
    (variant # "lib" /\ pc = "done")
    => /\ result.kind = "response"
       /\ result.status \in {200, 400, 404, 500}
       /\ UnrecoveredFailure # ""
            => result.status = 500 /\ UnrecoveredFailure \in Range(result.error)

C8_Witness ==
    /\ variant = "remoteOnly"
    /\ pc = "done"
    /\ world.tree = "BadJson"
    /\ Len(requests) = 2
    /\ result.status = 500
    /\ result.error = <<"Server Error: ", JsonSyntaxError>>

\* C9: a request without projectPath (missing or empty) is answered 400, and
\* no request to the hosting API and no filesystem call is ever issued.
C9_MissingPathRejectedFirst ==
    (variant # "lib" /\ request.body = "object"
        /\ request.projectPath \in {Undefined, <<>>})
    => /\ requests = <<>>
       /\ fsOps = <<>>
       /\ pc = "done" => result.kind = "response" /\ result.status = 400

C9_Witness ==
    /\ variant = "withLocal"
    /\ request.body = "object"
    /\ request.projectPath = <<>>
    /\ pc = "done"
    /\ result.status = 400

\* C10: without local support, a projectPath that is not remote is answered
\* 400 with the message to use a GitHub repository, and no request is issued.
C10_LocalUnsupported ==
    (variant = "remoteOnly" /\ request.body = "object"
        /\ request.projectPath \in LocalReferences)
    => /\ requests = <<>>
       /\ fsOps = <<>>
       /\ pc = "done"
            => /\ result.kind = "response"
               /\ result.status = 400
               /\ result.error = <<UnsupportedMessage>>

C10_Witness ==
    /\ variant = "remoteOnly"
    /\ request.projectPath = P_ABS
    /\ pc = "done"
    /\ result.status = 400
    /\ result.error = <<UnsupportedMessage>>

\* The request names the path /p and the handler has local support.
LocalRequest ==
    /\ variant \in {"withLocal", "legacy"}
    /\ request.body = "object"
    /\ request.projectPath = P_ABS

\* /p is a directory with nothing in it, and reading it works.
EmptyDirectory ==
    world.root = "Dir" /\ world.tree = "Ok" /\ DirEntries(world) = <<>>

\* C11 as stated: with local support a path that does not exist is answered
\* 404 with an error message saying that the path does not exist, and an
\* existing empty directory is answered 200 with an empty files map.
C11_MissingPathSaysNotExist ==
    (LocalRequest /\ pc = "done")
    => /\ world.root = "Missing"
            => /\ result.kind = "response"
               /\ result.status = 404
               /\ result.error \in { <<"Path does not exist">>,
                                      <<"Local path does not exist">> }
       /\ EmptyDirectory
            => /\ result.kind = "response"
               /\ result.status = 200
               /\ result.body.files = NoFiles

\* C11, amended: a path that does not exist is answered 404 with an error
\* message, "Path does not exist" from analyze-project.ts and "Local path
\* invalid or inaccessible" from the handler that also serves repositories;
\* an existing empty directory is answered 200 with an empty files map.
C11_MissingPathIs404 ==
    (LocalRequest /\ pc = "done")
    => /\ world.root = "Missing"
            => /\ result.kind = "response"
               /\ result.status = 404
               /\ result.error =
                    IF variant = "legacy"
                    THEN <<"Path does not exist">>
                    ELSE <<"Local path invalid or inaccessible">>
       /\ EmptyDirectory
            => /\ result.kind = "response"
               /\ result.status = 200
               /\ result.body.files = NoFiles
               /\ result.body.structure = <<>>

C11_Witness ==
    /\ variant = "withLocal"
    /\ request.projectPath = P_ABS
    /\ world.root = "Missing"
    /\ pc = "done"
    /\ fsOps = <<StatOp(P_ABS)>>
    /\ result.status = 404

\* The part of the path from its last "." on, "" when it has none.
TrailingSuffix(filePath) ==
    LET dots == { i \in 1..Len(filePath) : filePath[i] = "." }
    IN  IF dots = {} THEN <<>>
        ELSE SubSeq(filePath, CHOOSE i \in dots : \A j \in dots : j <= i,
                    Len(filePath))

\* s ends with the string t.
endsWith(s, t) ==
    Len(t) <= Len(s) /\ SubSeq(s, Len(s) - Len(t) + 1, Len(s)) = t

\* C12: a path whose trailing ".xxx" suffix, compared without regard to letter
\* case, is not in the allow-list is rejected by isInterestingFile, whatever
\* ignore substrings it contains or lacks.
C12_DisallowedExtensionRejected ==
    (variant = "isInterestingFile"
        /\ toLowerCase(TrailingSuffix(input)) \notin ALLOWED_EXTENSIONS)
    => /\ output.lib # <<TRUE>>
       /\ output.remoteOnly # <<TRUE>>
       /\ output.withLocal # <<TRUE>>

C12_Witness ==
    /\ variant = "isInterestingFile"
    /\ input = <<"s","r","c","/","a",".","m","d">>
    /\ output.lib = <<FALSE>>

\* C13: a path that contains an ignore substring of github.ts in any letter
\* case is rejected by isInterestingFile even when its extension is allowed,
\* and so is every path that ends in .d.ts.
C13_IgnoredSubstringRejected ==
    (variant = "isInterestingFile"
        /\ \/ \E k \in 1..Len(IGNORE_PATTERNS) :
                includes(toLowerCase(input), IGNORE_PATTERNS[k])
           \/ endsWith(input, <<".","d",".","t","s">>))
    => output.lib # <<TRUE>>

C13_Witness ==
    /\ variant = "isInterestingFile"
    /\ input = <<"L","O","C","A","L","E","S","/","a",".","T","S">>
    /\ ExtRegex(input) \in ALLOWED_EXTENSIONS
    /\ output.lib = <<FALSE>>

\* C14: the filter applied to the entries of a remote listing and the filter
\* the local walker applies give the same verdict on every path.
C14_FiltersAgree ==
    (variant = "isInterestingFile"
        /\ output.lib # <<>> /\ output.remoteOnly # <<>>
        /\ output.withLocal # <<>>)
    => output.lib = output.withLocal /\ output.remoteOnly = output.withLocal

\* The references of ProjectPaths that name a repository: owner/name, and a
\* URL on github.com with an owner and a repository segment.
RemoteReferences == { P_SLUG, P_URL }

\* C15: a reference is treated as remote exactly when it is a URL on
\* github.com with an owner and a repository segment or a two-segment
\* owner/name string; every other reference (an absolute path, ./d, a URL on
\* another host, one segment, three segments) is treated as local, so no
\* request to the hosting API is issued for it.
C15_RemoteExactlyWhenRepository ==
    (variant \in {"lib", "remoteOnly", "withLocal"}
        /\ request.body = "object"
        /\ request.projectPath \in ProjectPaths
        /\ pc # "start")
    => (requests # <<>> <=> request.projectPath \in RemoteReferences)

\* The score as the ranking policy states it: the length of the path, less
\* 10 for "src/", less 5 for "pages", less 5 for "main".
StatedScore(a) ==
    Len(a) - (IF includes(a, <<"s","r","c","/">>) THEN 10 ELSE 0)
           - (IF includes(a, <<"p","a","g","e","s">>) THEN 5 ELSE 0)
           - (IF includes(a, <<"m","a","i","n">>) THEN 5 ELSE 0)

\* How often x occurs in s.
Occurrences(s, x) == Cardinality({ i \in DOMAIN s : s[i] = x })

\* C16: the ranked list of github.ts is a permutation of the candidates that
\* pass the filter, in non-decreasing order of the stated score.
C16_RankedByScore ==
    (pc \in {"select", "selected"} /\ variant = "lib")
    => LET ranked == output.codeFiles
       IN  /\ \A x \in Range(input) \cup Range(ranked) :
                Occurrences(ranked, x) =
                    IF isInterestingFile(x) THEN Occurrences(input, x) ELSE 0
           /\ \A i, j \in DOMAIN ranked :
                i < j => StatedScore(ranked[i]) <= StatedScore(ranked[j])

C16_Witness ==
    /\ pc = "select"
    /\ variant = "lib"
    /\ input = << <<"R","E","A","D","M","E",".","m","d">>, <<"a","a","a","a","a","a","a","a","a","a",".","t","s">>, <<"s","r","c","/","a","a","a","a","a","a",".","t","s">> >>
    /\ output.codeFiles = << <<"s","r","c","/","a","a","a","a","a","a",".","t","s">>, <<"a","a","a","a","a","a","a","a","a","a",".","t","s">> >>

\* The position of x in the input listing.
InputPosition(x) == CHOOSE k \in DOMAIN input : input[k] = x

C18_SelectionIsPrefix ==
    pc = "selected"
    => LET ranked == output.codeFiles
           n == Len(ranked)
       IN  /\ Len(output.selectedFiles) = (IF n < 15 THEN n ELSE 15)
           /\ Len(output.structure) = (IF n < 50 THEN n ELSE 50)
           /\ \A i \in DOMAIN output.selectedFiles :
                output.selectedFiles[i] = ranked[i]
           /\ \A i \in DOMAIN output.structure : output.structure[i] = ranked[i]

C18_Witness ==
    /\ pc = "selected"
    /\ Len(output.codeFiles) = 51
    /\ Len(output.selectedFiles) = 15
    /\ Len(output.structure) = 50

\* C19: a content longer than 50,000 characters is stored as its first
\* 50,000 characters, a shorter one unchanged, on the remote and on the local
\* path; no stored value is longer than 50,000.
C19_StoredIsTruncatedContent ==
    \A f \in DOMAIN context.files :
        LET content == FileOutcome(world, f).text
            stored == context.files[f]
        IN  /\ stored.src = content.src
            /\ stored.len = (IF content.len > 50000 THEN 50000 ELSE content.len)
            /\ stored.len <= 50000

C19_Witness ==
    /\ pc = "done"
    /\ world.size = LargeFile
    /\ CandidatePath(1) \in DOMAIN context.files
    /\ context.files[CandidatePath(1)] = Text(CandidatePath(1), 50000)

\* The first 15 entries of the structure listing.
TopOfStructure ==
    { context.structure[i] :
        i \in { k \in DOMAIN context.structure : k <= 15 } }

\* C20: a content request is issued only for a path among the first 15
\* ranked candidates, never for one that is only at positions 16 to 50 of the
\* structure listing, and every key of files is among the first 15 entries
\* of structure.
C20_StructureDrivesNoFetch ==
    variant # "legacy"
    => /\ \A i \in DOMAIN requests :
            (requests[i].api = "contents"
                /\ requests[i].path \notin {README_MD, readme_md, package_json})
            => requests[i].path \in TopOfStructure
       /\ DOMAIN context.files \subseteq TopOfStructure

C20_Witness ==
    /\ pc = "done"
    /\ Len(context.structure) > 15
    /\ Cardinality(DOMAIN context.files) = 15
    /\ context.structure[16] \notin DOMAIN context.files
    /\ ~ContentRequested(context.structure[16])

\* C21: the readme of a returned context has at most 200,000 characters and
\* is the beginning of the text of the README that was fetched or read.
C21_ReadmeIsBoundedPrefix ==
    (HasContext /\ result.body.readme # Null)
    => LET readme == result.body.readme
       IN  /\ readme.len <= 200000
           /\ readme.src \in {README_MD, readme_md}
           /\ LET content == FileOutcome(world, readme.src)
               IN  /\ content.kind = "Ok"
                   /\ readme.len <= content.text.len
                   /\ readme.len < content.text.len
                        => readme.len = (IF variant = "legacy" THEN 8000 ELSE 200000)

C21_Witness ==
    /\ variant = "lib"
    /\ result.kind = "returned"
    /\ FileOutcome(world, README_MD).text.len > 200000
    /\ result.body.readme = Text(README_MD, 200000)

\* The keys that the repository state alone determines: the selected source
\* files whose content request gives a non-empty text.
ExpectedKeys ==
    { CandidatePath(i) :
        i \in { k \in 1..world.n : k <= 15 /\ world.file[k] = "Ok" } }

\* C22: the keys of files in the context of a remote extraction are
\* determined by the input and the repository state (listing and outcome of
\* each request), whatever the order in which the content fetches complete.
C22_KeysIndependentOfOrder ==
    (HasContext /\ requests # <<>>) => DOMAIN result.body.files = ExpectedKeys

C22_Witness ==
    /\ variant = "lib"
    /\ result.kind = "returned"
    /\ world.n = 2
    /\ world.file = <<"NotFound", "Ok">>
    /\ DOMAIN result.body.files = {CandidatePath(2)}

\* C23: on the remote path the content requests of all selected files have
\* been issued before the response of any of them is processed, and the
\* extractor produces its result only when every dispatched content fetch
\* has completed.
C23_FireAllThenWaitForAll ==
    requests # <<>>
    => /\ pc = "fetching" => \A f \in Range(selectedFiles) : ContentRequested(f)
       /\ result.kind # "pending" => pending = {}

\* C24: the budget test of a content fetch runs in that fetch's completion
\* step, when its content has arrived and before its result is committed: a
\* step that commits a result to files starts with the running total below
\* 500,000.
C24_BudgetTestedAtCompletion ==
    [][\A f \in pending :
          (f \notin DOMAIN context.files /\ f \in DOMAIN context'.files)
          => totalSize < TOTAL_CODE_LIMIT]_vars

\* The path of a filesystem call, relative to the root of the walk.
RelativeToRoot(op) == relative(request.projectPath, op.path)

\* The relative path contains an ignore pattern of the walker as written.
MatchesIgnore(relPath) ==
    \E k \in 1..Len(IGNORE_PATTERNS_POST) :
        includes(relPath, IGNORE_PATTERNS_POST[k])

C26_TreeGivesBlobPaths ==
    (variant = "fetchGithubTree" /\ pc = "done" /\ input.kind = "Ok")
    => LET blobs == { i \in DOMAIN input.tree : input.tree[i].type = "blob" }
           rank(i) == Cardinality({ j \in blobs : j <= i })
       IN  /\ output.settled = "fulfilled"
           /\ Len(output.value) = Cardinality(blobs)
           /\ \A i \in blobs : output.value[rank(i)] = input.tree[i].path

C26_Witness ==
    /\ variant = "fetchGithubTree"
    /\ pc = "done"
    /\ input = [kind |-> "Ok",
                 tree |-> <<Tree(S_src), Blob(S_x_ts), Blob(S_lib)>>]
    /\ output.value = <<S_x_ts, S_lib>>

\* Handler r has written isGenerating = true and has not answered yet.
InProgress(r) ==
    handlers[r].pc \in {"analyzing", "generating", "saving", "resetting"}

\* No request but r has started.
Alone(r) == \A q \in DOMAIN handlers : q # r => handlers[q].pc = "start"

\* C27: a generate-aso request on its own has isGenerating = true in the
\* document while it analyses and generates, and whenever it has answered
\* after writing the flag (success, failed analysis, failed generation,
\* unparsable output, failed final update) the document says
\* isGenerating = false.
C27_FlagClearedAtResponse ==
    \A r \in DOMAIN handlers :
        (variant = "generate-aso" /\ Alone(r) /\ handlers[r].marked)
        => /\ handlers[r].pc \in {"analyzing", "generating"}
                => document.isGenerating
           /\ handlers[r].pc = "done" => ~document.isGenerating

\* C28: for every interleaving of generate-aso requests for one document,
\* isGenerating is true whenever one of them is between its write of
\* isGenerating = true and its response.
C28_FlagCoversEveryRequest ==
    (variant = "generate-aso" /\ \E r \in DOMAIN handlers : InProgress(r))
    => document.isGenerating

\* C29: in every interleaving of the fetch completions of the remote path
\* the lengths of the values stored in files add up to at most
\* 15 x 50,000 = 750,000 characters.
C29_TotalWithinSelectionBound ==
    requests # <<>>
    => /\ StoredTotal(context.files) <= 750000
       /\ totalSize <= 750000

C29_Witness ==
    /\ requests # <<>>
    /\ result.kind = "returned"
    /\ Cardinality(DOMAIN result.body.files) = 15
    /\ StoredTotal(result.body.files) = 750000

\* The lines of the response that are complete: all but an open last one.
CompleteLines ==
    IF input.open THEN SubSeq(input.lines, 1, Len(input.lines) - 1)
    ELSE input.lines

RECURSIVE TextsBeforeDone(_)
\* The texts of the events of the lines, in order, up to the first [DONE].
TextsBeforeDone(lines) ==
    IF lines = <<>> THEN <<>>
    ELSE IF Head(lines) = <<"d","a","t","a",":"," ","[","D","O","N","E","]">> THEN <<>>
    ELSE (IF Head(lines) = <<"d","a","t","a",":"," ","A">> THEN << <<"A">> >>
          ELSE IF Head(lines) = <<"d","a","t","a",":"," ","B","\r">> THEN << <<"B">> >>
          ELSE <<>>)
         \o TextsBeforeDone(Tail(lines))

\* C30: however the response is divided into chunks, streamGeminiApi yields
\* the texts of the complete data lines before the first [DONE] line, in
\* stream order: at every moment a prefix of them, and all of them when the
\* generator has ended.
C30_ChunkingIndependent ==
    variant = "streamGeminiApi"
    => LET expected == TextsBeforeDone(CompleteLines)
       IN  /\ Len(output.pieces) <= Len(expected)
           /\ output.pieces = SubSeq(expected, 1, Len(output.pieces))
           /\ output.at \in {"returned", "ended"} => output.pieces = expected

\* A data line cut in the middle of its prefix is parsed once complete, and
\* the text after [DONE] is not yielded.
C30_Witness ==
    /\ variant = "streamGeminiApi"
    /\ input.lines = << <<"d","a","t","a",":"," ","A">>, <<"d","a","t","a",":"," ","B","\r">> >>
    /\ ~input.open
    /\ output.pos = 3
    /\ output.buffer = <<"d","a","t">>
    /\ output.pieces = <<>>

====
